---- MODULE Spec2Model ----
(***************************************************************************)
(* Consistent-hashing rings of wangzeping722/consistent.                   *)
(*                                                                         *)
(*   Consistent      (consistent.go)   the string ring: circle, members,   *)
(*                                     sortedHashes, count                 *)
(*   ConsistentHash  (consistent1.go)  the generic ring: keys, ring, nodes *)
(*                                                                         *)
(* Go slices are 0-based and TLA+ sequences 1-based: an index i of the Go  *)
(* code is position i + 1 of the sequence.                                 *)
(***************************************************************************)
EXTENDS Integers, Sequences, FiniteSets, TLC

\* Elements given to Add, Remove and Set of the string ring.
NodeOrder == <<"a", "b", "c">>

Nodes == {NodeOrder[i] : i \in 1 .. Len(NodeOrder)}

\* The two elements of the runs with hash collisions.
CollNodes == {"a", "b"}

\* New() sets NumberOfReplicas to 20; the model keeps the loops and scales the count.
NumberOfReplicas == 2

\* Hash values are 0 .. MaxHash (uint32 in the code).
MaxHash == 5

\* Add and Remove are taken while count stays within -MaxUnder .. MaxCount.
MaxCount == 4

MaxUnder == 2

\* Set is called with lists of at most MaxSetLen elements.
MaxSetLen == 2

\* GetN is called with n in 0 .. MaxN.
MaxN == 3

HashSpace == 0 .. MaxHash

\* Hash values of the generic ring are 0 .. CHMaxHash (uint64 in the code).
CHMaxHash == 3

CHHashSpace == 0 .. CHMaxHash

\* The hash of innerRepr(key) of a lookup key is in 0 .. MaxInner.
MaxInner == 2

\* consistent1.go: minReplica is 100; the model scales it as it scales NumberOfReplicas.
minReplica == 2

TopWeight == 100

\* The width of int (64 bits in the code, scaled): the replica count of
\* AddWithWeight is computed in it.
IntBits == 16

MaxInt == 2 ^ (IntBits - 1) - 1

prime == 167777619

VARIABLES
    hashTab,        \* the hash function of hashKey: string -> uint32
    circle,         \* Consistent.circle: map[uint32]string
    members,        \* Consistent.members: the keys of map[string]bool
    sortedHashes,   \* Consistent.sortedHashes
    count,          \* Consistent.count
    hashFunc,       \* ConsistentHash.hashFunc: []byte -> uint64
    replicas,       \* ConsistentHash.replicas
    keys,           \* ConsistentHash.keys
    ring,           \* ConsistentHash.ring: map[uint64][]interface{}
    nodes,          \* ConsistentHash.nodes: the keys of map[string]PlaceholderType
    ret,            \* the last call and what it returned
    calls,          \* the calls of the generic ring that run concurrently, one per goroutine
    snapshot        \* the generic ring when these calls began

svars == <<circle, members, sortedHashes, count>>

gvars == <<keys, ring, nodes>>

cvars == <<calls, snapshot>>

vars == <<hashTab, circle, members, sortedHashes, count,
          hashFunc, replicas, keys, ring, nodes, ret, calls, snapshot>>

----------------------------------------------------------------------------
(* Helpers *)

Min(x, y) == IF x < y THEN x ELSE y

Range(s) == {s[i] : i \in 1 .. Len(s)}

\* sort.Sort on a slice filled from the keys of a map: the keys in ascending order.
RECURSIVE SortSet(_)
SortSet(S) ==
    IF S = {} THEN <<>>
    ELSE LET m == CHOOSE x \in S : \A y \in S : x <= y
         IN  <<m>> \o SortSet(S \ {m})

\* sort.Search(n, f): binary search for the smallest i in [0, n) with f(i), or n.
\* T is f of the caller, given as the set of the indices where it is true.
RECURSIVE SortSearch(_, _, _)
SortSearch(i, j, T) ==
    IF i < j
    THEN LET h == (i + j) \div 2
         IN  IF h \notin T THEN SortSearch(h + 1, j, T) ELSE SortSearch(i, h, T)
    ELSE i

\* The restriction of a map to its keys outside D (delete(m, k) for k in D).
MapDelete(m, D) == [k \in (DOMAIN m) \ D |-> m[k]]

\* m[k] = v for every k in D.
MapPut(m, D, v) == [k \in (DOMAIN m) \cup D |-> IF k \in D THEN v ELSE m[k]]

----------------------------------------------------------------------------
(* The string ring: consistent.go *)

\* The lookup keys: one name per hash value (CRC-32 and FNV-1a reach every value).
KeyName(h) == "k" \o ToString(h)

Keys == {KeyName(h) : h \in HashSpace}

eltKey(elt, idx) == ToString(idx) \o elt

hashKey(key) == hashTab[key]

\* The positions add(elt) writes and remove(elt) deletes.
EltHashes(elt) == {hashKey(eltKey(elt, i)) : i \in 0 .. NumberOfReplicas - 1}

updateSortedHashes(c) == SortSet(DOMAIN c)

\* The ring as a record, to compose add and remove inside Set.
Ring(c, m, s, n) == [circle |-> c, members |-> m, sortedHashes |-> s, count |-> n]

add(r, elt) ==
    LET c == MapPut(r.circle, EltHashes(elt), elt)
    IN  Ring(c, r.members \cup {elt}, updateSortedHashes(c), r.count + 1)

\* remove without its call of updateSortedHashes.
removeStale(r, elt) ==
    Ring(MapDelete(r.circle, EltHashes(elt)), r.members \ {elt}, r.sortedHashes,
         r.count - 1)

remove(r, elt) ==
    LET c == MapDelete(r.circle, EltHashes(elt))
    IN  Ring(c, r.members \ {elt}, updateSortedHashes(c), r.count - 1)

\* The first loop of Set: remove every member that is not in elts.
RECURSIVE SetRemoveLoop(_, _)
SetRemoveLoop(r, todo) ==
    IF todo = {} THEN r
    ELSE LET k == CHOOSE x \in todo : TRUE
         IN  SetRemoveLoop(remove(r, k), todo \ {k})

\* The second loop of Set: add, in the order of elts, every element that is no member.
RECURSIVE SetAddLoop(_, _, _)
SetAddLoop(r, elts, j) ==
    IF j > Len(elts) THEN r
    ELSE IF elts[j] \in r.members
         THEN SetAddLoop(r, elts, j + 1)
         ELSE SetAddLoop(add(r, elts[j]), elts, j + 1)

SetRing(r, elts) ==
    SetAddLoop(SetRemoveLoop(r, r.members \ Range(elts)), elts, 1)

Cur == Ring(circle, members, sortedHashes, count)

Install(r) ==
    /\ circle' = r.circle
    /\ members' = r.members
    /\ sortedHashes' = r.sortedHashes
    /\ count' = r.count

\* What a call returned: err is "" or the error, res the nodes returned, hang a
\* call whose loop never ends, panic a run-time panic.
Ret(op, name, n, err, res, hang, panic) ==
    [op |-> op, name |-> name, n |-> n, err |-> err, res |-> res,
     hang |-> hang, panic |-> panic]

\* Add, Remove and Set return nothing.
NoRet(op) == Ret(op, "", 0, "", <<>>, FALSE, FALSE)

LookupOps == {"Get", "GetTwo", "GetN"}

\* A lookup leaves the ring as it is: what can follow it is what can follow the
\* state it was made in, so a behaviour of the model ends with its first lookup.
Idle == ret.op \notin LookupOps

ErrEmptyCircle == "empty circle"

Add(elt) ==
    /\ Idle
    /\ count < MaxCount
    /\ Install(add(Cur, elt))
    /\ ret' = NoRet("Add")
    /\ UNCHANGED <<hashTab, hashFunc, replicas, gvars, cvars>>

Remove(elt) ==
    /\ Idle
    /\ count > -MaxUnder
    /\ Install(remove(Cur, elt))
    /\ ret' = NoRet("Remove")
    /\ UNCHANGED <<hashTab, hashFunc, replicas, gvars, cvars>>

SetLists(elts) == UNION {[1 .. k -> elts] : k \in 0 .. MaxSetLen}

Set(elts) ==
    /\ Idle
    /\ LET r == SetRing(Cur, elts)
       IN  /\ r.count \in -MaxUnder .. MaxCount
           /\ Install(r)
    /\ ret' = NoRet("Set")
    /\ UNCHANGED <<hashTab, hashFunc, replicas, gvars, cvars>>

\* search: the index of the first hash greater than key, 0 when there is none.
search(r, key) ==
    LET n == Len(r.sortedHashes)
        i == SortSearch(0, n, {x \in 0 .. n - 1 : r.sortedHashes[x + 1] > key})
    IN  IF i >= n THEN 0 ELSE i

\* The node at index i of sortedHashes.
At(r, i) == r.circle[r.sortedHashes[i + 1]]

Get(r, name) ==
    IF Cardinality(DOMAIN r.circle) = 0
    THEN Ret("Get", name, 0, ErrEmptyCircle, <<>>, FALSE, FALSE)
    ELSE Ret("Get", name, 0, "", <<At(r, search(r, hashKey(name)))>>, FALSE, FALSE)

\* The loop of GetTwo from its test i != start on. Its only state is i, in
\* 0 .. len(circle): a run of more than len(circle) + 1 iterations repeats a value
\* of i and so never ends; fuel counts the iterations left before that is known.
\* The result is b, or "hang".
RECURSIVE GetTwoLoop(_, _, _, _, _, _)
GetTwoLoop(r, i, start, a, b, fuel) ==
    IF i = start THEN [b |-> b, hang |-> FALSE]
    ELSE IF fuel = 0 THEN [b |-> b, hang |-> TRUE]
    ELSE LET i1 == IF i >= Cardinality(DOMAIN r.circle) THEN 0 ELSE i
             b1 == At(r, i1)
         IN  IF b1 # a THEN [b |-> b1, hang |-> FALSE]
             ELSE GetTwoLoop(r, i1 + 1, start, a, b1, fuel - 1)

GetTwo(r, name) ==
    IF Cardinality(DOMAIN r.circle) = 0
    THEN Ret("GetTwo", name, 0, ErrEmptyCircle, <<>>, FALSE, FALSE)
    ELSE LET i == search(r, hashKey(name))
             a == At(r, i)
         IN  IF r.count = 1
             THEN Ret("GetTwo", name, 0, "", <<a, "">>, FALSE, FALSE)
             ELSE LET w == GetTwoLoop(r, i + 1, i, a, "",
                                      Cardinality(DOMAIN r.circle) + 2)
                  IN  IF w.hang
                      THEN Ret("GetTwo", name, 0, "", <<>>, TRUE, FALSE)
                      ELSE Ret("GetTwo", name, 0, "", <<a, w.b>>, FALSE, FALSE)

sliceContainsMember(set, member) == \E j \in 1 .. Len(set) : set[j] = member

\* The loop of GetN from its test i != start on. Its state is (i, res) with i in
\* 0 .. len(sortedHashes) and res only growing, by nodes of the circle: a run that
\* uses up fuel = (len + 2) * (nodes + 1) iterations repeats a state and never ends.
RECURSIVE GetNLoop(_, _, _, _, _, _)
GetNLoop(r, i, start, n, res, fuel) ==
    IF i = start THEN [res |-> res, hang |-> FALSE]
    ELSE IF fuel = 0 THEN [res |-> res, hang |-> TRUE]
    ELSE LET i1 == IF i >= Len(r.sortedHashes) THEN 0 ELSE i
             elem == At(r, i1)
             res1 == IF sliceContainsMember(res, elem) THEN res ELSE Append(res, elem)
         IN  IF Len(res1) = n THEN [res |-> res1, hang |-> FALSE]
             ELSE GetNLoop(r, i1 + 1, start, n, res1, fuel - 1)

GetN(r, name, n) ==
    IF Cardinality(DOMAIN r.circle) = 0
    THEN Ret("GetN", name, n, ErrEmptyCircle, <<>>, FALSE, FALSE)
    ELSE LET n1 == IF r.count < n THEN r.count ELSE n
         IN  IF n1 < 0
             \* make([]string, 0, n) with n < 0 panics
             THEN Ret("GetN", name, n, "", <<>>, FALSE, TRUE)
             ELSE LET i == search(r, hashKey(name))
                      w == GetNLoop(r, i + 1, i, n1, <<At(r, i)>>,
                                    (Len(r.sortedHashes) + 2) * (Cardinality(Nodes) + 1))
                  IN  IF w.hang
                      THEN Ret("GetN", name, n, "", <<>>, TRUE, FALSE)
                      ELSE Ret("GetN", name, n, "", w.res, FALSE, FALSE)

GetCall(name) ==
    /\ Idle
    /\ ret' = Get(Cur, name)
    /\ UNCHANGED <<hashTab, svars, hashFunc, replicas, gvars, cvars>>

GetTwoCall(name) ==
    /\ Idle
    /\ ret' = GetTwo(Cur, name)
    /\ UNCHANGED <<hashTab, svars, hashFunc, replicas, gvars, cvars>>

GetNCall(name, n) ==
    /\ Idle
    /\ ret' = GetN(Cur, name, n)
    /\ UNCHANGED <<hashTab, svars, hashFunc, replicas, gvars, cvars>>

----------------------------------------------------------------------------
(* Specifications of the string ring *)

KeysOf(elts) == {eltKey(elt, idx) : elt \in elts, idx \in 0 .. NumberOfReplicas - 1}

\* The hash tables over the replica keys of elts that extend t, with the lookup
\* key KeyName(h) hashed to h.
HashTab(elts, t) ==
    [k \in KeysOf(elts) \cup Keys |->
        IF k \in KeysOf(elts) THEN t[k] ELSE CHOOSE h \in HashSpace : KeyName(h) = k]

Injective(t) == \A x, y \in DOMAIN t : t[x] = t[y] => x = y

\* The ring treats its elements alike, so of the tables that differ only by a
\* renaming of the elements one is kept: the one whose elements, in the order of
\* NodeOrder, have their replica 0 in ascending order of hash.
Ascending(t, elts) ==
    \A i, j \in 1 .. Len(NodeOrder) :
        (i < j /\ NodeOrder[i] \in elts /\ NodeOrder[j] \in elts)
            => t[eltKey(NodeOrder[i], 0)] <= t[eltKey(NodeOrder[j], 0)]

\* Without collisions: no two replica keys share a hash.
InjectiveTabs(elts) ==
    {HashTab(elts, t) : t \in {u \in [KeysOf(elts) -> HashSpace] :
                                 Injective(u) /\ Ascending(u, elts)}}

\* Any hash function, collisions included. CRC-32 has them: it is affine in the
\* bits of its input, so two elements of one length whose difference the CRC
\* polynomial divides ("aaaaa" and "}.=`u") collide on every replica key.
AllTabs(elts) ==
    {HashTab(elts, t) : t \in {u \in [KeysOf(elts) -> HashSpace] : Ascending(u, elts)}}

\* No goroutines: every call runs to its end before the next begins.
NoCalls ==
    /\ calls = <<>>
    /\ snapshot = <<>>

New ==
    /\ circle = <<>>
    /\ members = {}
    /\ sortedHashes = <<>>
    /\ count = 0
    /\ ret = NoRet("New")

\* The generic ring is not used in the runs of the string ring.
NoGeneric ==
    /\ hashFunc = <<>>
    /\ replicas = 0
    /\ keys = <<>>
    /\ ring = <<>>
    /\ nodes = {}

Init ==
    /\ hashTab \in InjectiveTabs(Nodes)
    /\ New
    /\ NoGeneric
    /\ NoCalls

Next ==
    \/ \E elt \in Nodes : Add(elt)
    \/ \E elt \in Nodes : Remove(elt)
    \/ \E elts \in SetLists(Nodes) : Set(elts)
    \/ \E name \in Keys : GetCall(name)
    \/ \E name \in Keys : GetTwoCall(name)
    \/ \E name \in Keys, n \in 0 .. MaxN : GetNCall(name, n)

\* The string ring under a hash function without collisions.
Spec == Init /\ [][Next]_vars

InitColl ==
    /\ hashTab \in AllTabs(CollNodes)
    /\ New
    /\ NoGeneric
    /\ NoCalls

NextColl ==
    \/ \E elt \in CollNodes : Add(elt)
    \/ \E elt \in CollNodes : Remove(elt)
    \/ \E elts \in SetLists(CollNodes) : Set(elts)
    \/ \E name \in Keys : GetCall(name)

\* The string ring under any hash function, two elements.
SpecColl == InitColl /\ [][NextColl]_vars

----------------------------------------------------------------------------
(* The generic ring: consistent1.go *)

\* Node values (interface{}): nil, strings and ints.
Nil == [kind |-> "nil", s |-> "", n |-> 0]

StrNode(x) == [kind |-> "string", s |-> x, n |-> 0]

IntNode(x) == [kind |-> "int", s |-> "", n |-> x]

\* The nodes given to the generic ring; "7" and 7 have the same repr.
GNodes == {StrNode("a"), StrNode("7"), IntNode(7)}

\* reprOfValue: string is itself, int is strconv.Itoa.
reprOfValue(val) ==
    IF val.kind = "string" THEN val.s ELSE ToString(val.n)

repr(node) ==
    IF node.kind = "nil" THEN "" ELSE reprOfValue(node)

\* fmt.Sprintf("%d:%v", prime, node)
innerRepr(node) ==
    ToString(prime) \o ":" \o (IF node.kind = "nil" THEN "<nil>" ELSE reprOfValue(node))

\* The ring as a record, to compose Remove and the rest of AddWithReplicas.
CHRing(k, rg, n) == [keys |-> k, ring |-> rg, nodes |-> n]

CHCur == CHRing(keys, ring, nodes)

containsNode(g, nodeRepr) == nodeRepr \in g.nodes

addNode(g, nodeRepr) == [g EXCEPT !.nodes = @ \cup {nodeRepr}]

\* append(s[:index], s[index+1:]...)
DeleteAt(s, index) == SubSeq(s, 1, index) \o SubSeq(s, index + 2, Len(s))

\* sort.Slice by <: insertion of x into an ascending sequence, then the whole sort.
RECURSIVE InsertSorted(_, _)
InsertSorted(s, x) ==
    IF s = <<>> THEN <<x>>
    ELSE IF x < Head(s) THEN <<x>> \o s
    ELSE <<Head(s)>> \o InsertSorted(Tail(s), x)

RECURSIVE SortSlice(_)
SortSlice(s) ==
    IF s = <<>> THEN <<>> ELSE InsertSorted(SortSlice(Tail(s)), Head(s))

\* The replica hash i of a node.
ReplicaHash(nodeRepr, i) == hashFunc[nodeRepr \o ToString(i)]

\* removeRingNode without its delete(h.ring, hash): the emptied list stays.
removeRingNodeKeepsEmpty(rg, hash, nodeRepr) ==
    IF hash \in DOMAIN rg
    THEN [rg EXCEPT ![hash] = SelectSeq(rg[hash], LAMBDA x : repr(x) # nodeRepr)]
    ELSE rg

removeRingNode(rg, hash, nodeRepr) ==
    IF hash \in DOMAIN rg
    THEN LET newNodes == SelectSeq(rg[hash], LAMBDA x : repr(x) # nodeRepr)
         IN  IF Len(newNodes) > 0
             THEN [rg EXCEPT ![hash] = newNodes]
             ELSE MapDelete(rg, {hash})
    ELSE rg

\* The loop of Remove, from replica i on.
RECURSIVE CHRemoveLoop(_, _, _)
CHRemoveLoop(g, nodeRepr, i) ==
    IF i >= replicas THEN g
    ELSE LET hash == ReplicaHash(nodeRepr, i)
             n == Len(g.keys)
             index == SortSearch(0, n, {x \in 0 .. n - 1 : g.keys[x + 1] >= hash})
             k1 == IF index < n THEN DeleteAt(g.keys, index) ELSE g.keys
         IN  CHRemoveLoop(CHRing(k1, removeRingNode(g.ring, hash, nodeRepr), g.nodes),
                          nodeRepr, i + 1)

CHRemoveOf(g, node) ==
    IF ~containsNode(g, repr(node)) THEN g ELSE CHRemoveLoop(g, repr(node), 0)

\* The loop of AddWithReplicas, from replica i on.
RECURSIVE CHAddLoop(_, _, _, _)
CHAddLoop(g, node, rep, i) ==
    IF i >= rep THEN g
    ELSE LET hash == ReplicaHash(repr(node), i)
             old == IF hash \in DOMAIN g.ring THEN g.ring[hash] ELSE <<>>
         IN  CHAddLoop(CHRing(Append(g.keys, hash),
                              MapPut(g.ring, {hash}, Append(old, node)), g.nodes),
                       node, rep, i + 1)

\* AddWithReplicas after its call of Remove: the part under its own lock.
CHAddLocked(g, node, rep) ==
    LET rep1 == IF rep > replicas THEN replicas ELSE rep
        g1 == CHAddLoop(addNode(g, repr(node)), node, rep1, 0)
    IN  CHRing(SortSlice(g1.keys), g1.ring, g1.nodes)

CHAddWithReplicasOf(g, node, rep) == CHAddLocked(CHRemoveOf(g, node), node, rep)

CHAddOf(g, node) == CHAddWithReplicasOf(g, node, replicas)

\* An int result: two's complement on IntBits bits.
WrapInt(x) == ((x + 2 ^ (IntBits - 1)) % 2 ^ IntBits) - 2 ^ (IntBits - 1)

\* The quotient of Go, truncated toward zero, for a divisor above zero.
GoDiv(x, y) == IF x >= 0 THEN x \div y ELSE -((-x) \div y)

CHAddWithWeightOf(g, node, weight) ==
    CHAddWithReplicasOf(g, node, GoDiv(WrapInt(replicas * weight), TopWeight))

CHInstall(g) ==
    /\ keys' = g.keys
    /\ ring' = g.ring
    /\ nodes' = g.nodes

\* What the sequential calls of the generic ring leave alone.
CHFrame == UNCHANGED <<hashTab, svars, hashFunc, replicas, cvars>>

CHAdd(node) ==
    /\ Idle
    /\ CHInstall(CHAddOf(CHCur, node))
    /\ ret' = NoRet("Add")
    /\ CHFrame

CHAddWithReplicas(node, rep) ==
    /\ Idle
    /\ CHInstall(CHAddWithReplicasOf(CHCur, node, rep))
    /\ ret' = NoRet("AddWithReplicas")
    /\ CHFrame

CHAddWithWeight(node, weight) ==
    /\ Idle
    /\ CHInstall(CHAddWithWeightOf(CHCur, node, weight))
    /\ ret' = NoRet("AddWithWeight")
    /\ CHFrame

CHRemove(node) ==
    /\ Idle
    /\ CHInstall(CHRemoveOf(CHCur, node))
    /\ ret' = NoRet("Remove")
    /\ CHFrame

\* Get returns (node, ok); index out of range and division by zero panic.
CHGetOf(g, v) ==
    IF Cardinality(DOMAIN g.ring) = 0
    THEN Ret("Get", repr(v), 0, "not ok", <<>>, FALSE, FALSE)
    ELSE IF Len(g.keys) = 0
    THEN Ret("Get", repr(v), 0, "", <<>>, FALSE, TRUE)
    ELSE LET hash == hashFunc[repr(v)]
             n == Len(g.keys)
             index == SortSearch(0, n, {x \in 0 .. n - 1 : g.keys[x + 1] >= hash}) % n
             at == IF g.keys[index + 1] \in DOMAIN g.ring
                   THEN g.ring[g.keys[index + 1]] ELSE <<>>
         IN  IF Len(at) = 0
             THEN Ret("Get", repr(v), 0, "not ok", <<>>, FALSE, FALSE)
             ELSE IF Len(at) = 1
             THEN Ret("Get", repr(v), 0, "", <<at[1]>>, FALSE, FALSE)
             ELSE LET innerIndex == hashFunc[innerRepr(v)]
                      pos == innerIndex % Len(at)
                  IN  Ret("Get", repr(v), 0, "", <<at[pos + 1]>>, FALSE, FALSE)

CHGet(v) ==
    /\ Idle
    /\ ret' = CHGetOf(CHCur, v)
    /\ UNCHANGED gvars
    /\ CHFrame

----------------------------------------------------------------------------
(* Specification of the generic ring *)

\* The lookup keys: a string per pair (hash of repr, hash of innerRepr).
CHKeyName(h, j) == "k" \o ToString(h) \o "_" \o ToString(j)

CHKeys == {StrNode(CHKeyName(h, j)) : h \in CHHashSpace, j \in 0 .. MaxInner}

CHReplicaKeys(rep) == {repr(node) \o ToString(i) : node \in GNodes, i \in 0 .. rep - 1}

\* The hash functions that extend t, a table of the replica keys.
CHHashFunc(t) ==
    [k \in DOMAIN t \cup {repr(v) : v \in CHKeys} \cup {innerRepr(v) : v \in CHKeys} |->
        IF k \in DOMAIN t THEN t[k]
        ELSE IF k \in {repr(v) : v \in CHKeys}
        THEN CHOOSE h \in CHHashSpace : \E j \in 0 .. MaxInner : CHKeyName(h, j) = k
        ELSE CHOOSE j \in 0 .. MaxInner :
                \E h \in CHHashSpace : innerRepr(StrNode(CHKeyName(h, j))) = k]

\* NewCustomConsistentHash(rep, fn)
NewCustomConsistentHash(rep, fn) ==
    /\ hashFunc = fn
    /\ replicas = (IF rep < minReplica THEN minReplica ELSE rep)
    /\ keys = <<>>
    /\ ring = <<>>
    /\ nodes = {}

\* The string ring is not used in the runs of the generic ring.
NoString ==
    /\ hashTab = <<>>
    /\ circle = <<>>
    /\ members = {}
    /\ sortedHashes = <<>>
    /\ count = 0

\* The weights given to AddWithWeight: the scale 0 to 100, above it, and the
\* largest int.
Weights == {0, 50, 100, 150, MaxInt}

InitCH ==
    /\ \E rep \in 0 .. minReplica :
          \E t \in [CHReplicaKeys(minReplica) -> CHHashSpace] :
             NewCustomConsistentHash(rep, CHHashFunc(t))
    /\ NoString
    /\ NoCalls
    /\ ret = NoRet("New")

NextCH ==
    \/ \E node \in GNodes : CHAdd(node)
    \/ \E node \in GNodes, rep \in 0 .. minReplica + 1 : CHAddWithReplicas(node, rep)
    \/ \E node \in GNodes, weight \in Weights : CHAddWithWeight(node, weight)
    \/ \E node \in GNodes : CHRemove(node)
    \/ \E v \in CHKeys : CHGet(v)

SpecCH == InitCH /\ [][NextCH]_vars

----------------------------------------------------------------------------
(* Concurrent calls of the generic ring *)

\* Every method of ConsistentHash holds h.lock from its first access of the ring
\* to its return, so the part of a call under the lock is one step. A call of
\* AddWithReplicas is two such parts: h.Remove(node), which locks and unlocks,
\* and then its own locked part. Between them it reads h.replicas only, which
\* no method writes.
AddCall(node, rep) == [op |-> "AddWithReplicas", node |-> node, rep |-> rep, pc |-> "Remove"]

GetCallOf(v) == [op |-> "Get", node |-> v, rep |-> 0, pc |-> "Get"]

\* Two goroutines begin a call each: the first AddWithReplicas(node, rep)
\* (Add(node) is rep = h.replicas), the second Get(v) or Add of the same node.
Go(c1, c2) ==
    /\ Idle
    /\ calls = <<>>
    /\ calls' = <<c1, c2>>
    /\ snapshot' = CHCur
    /\ UNCHANGED <<hashTab, svars, hashFunc, replicas, gvars, ret>>

\* h.Remove(node) of AddWithReplicas, line 107.
AddWithReplicasRemove(t) ==
    /\ t \in DOMAIN calls
    /\ calls[t].pc = "Remove"
    /\ CHInstall(CHRemoveOf(CHCur, calls[t].node))
    /\ calls' = [calls EXCEPT ![t].pc = "Lock"]
    /\ UNCHANGED <<hashTab, svars, hashFunc, replicas, ret, snapshot>>

\* The part of AddWithReplicas under its own lock, lines 109 to 127.
AddWithReplicasLocked(t) ==
    /\ t \in DOMAIN calls
    /\ calls[t].pc = "Lock"
    /\ CHInstall(CHAddLocked(CHCur, calls[t].node, calls[t].rep))
    /\ calls' = [calls EXCEPT ![t].pc = "done"]
    /\ UNCHANGED <<hashTab, svars, hashFunc, replicas, ret, snapshot>>

\* Get of a goroutine.
GetLocked(t) ==
    /\ t \in DOMAIN calls
    /\ calls[t].pc = "Get"
    /\ ret' = CHGetOf(CHCur, calls[t].node)
    /\ calls' = [calls EXCEPT ![t].pc = "done"]
    /\ UNCHANGED <<hashTab, svars, hashFunc, replicas, gvars, snapshot>>

\* The ring is filled by sequential calls, then the two goroutines run: a
\* re-add of a registered node beside a Get, or two adds of one node.
NextConc ==
    \/ calls = <<>> /\ \E node \in GNodes : CHAdd(node)
    \/ \E node \in GNodes, rep \in 1 .. replicas, v \in CHKeys :
           containsNode(CHCur, repr(node)) /\ Go(AddCall(node, rep), GetCallOf(v))
    \/ \E node \in GNodes, rep \in 1 .. replicas :
           Go(AddCall(node, rep), AddCall(node, replicas))
    \/ \E t \in 1 .. 2 : AddWithReplicasRemove(t)
    \/ \E t \in 1 .. 2 : AddWithReplicasLocked(t)
    \/ \E t \in 1 .. 2 : GetLocked(t)

SpecConc == InitCH /\ [][NextConc]_vars

\* The two rings, each constructed on its own: a behaviour is a behaviour of the
\* string ring or one of the generic ring.
InitBoth == Init \/ InitCH

NextBoth ==
    \/ DOMAIN hashTab # {} /\ Next
    \/ DOMAIN hashFunc # {} /\ NextCH

SpecBoth == InitBoth /\ [][NextBoth]_vars

----------------------------------------------------------------------------
(* Claims *)

\* No element occurs twice in s.
Distinct(s) == \A i, j \in 1 .. Len(s) : s[i] = s[j] => i = j

\* A call that returned: no error, no panic, and its loop ended.
Returned(r) == r.err = "" /\ ~r.hang /\ ~r.panic

\* C1: whenever members is non-empty, Get(key) returns for every key without
\* error, and the node it returns is a member.
C1_GetReturnsMember ==
    members # {} =>
        \A name \in Keys :
            LET g == Get(Cur, name)
            IN  g.err = "" /\ g.res[1] \in members

\* C2: every call of Get, GetTwo(key) and GetN(key, n), n >= 0, returns: the walk
\* of GetTwo and of GetN ends.
C2_LookupsTerminate ==
    \A name \in Keys :
        /\ ~Get(Cur, name).hang
        /\ ~GetTwo(Cur, name).hang
        /\ \A n \in 0 .. MaxN : ~GetN(Cur, name, n).hang

\* C3: on a non-empty ring GetN(key, n), n >= 1, returns exactly
\* min(n, number of members) nodes, pairwise distinct, the first of them the node
\* Get(key) returns. Stated for the states in which count is the number of
\* members (C7), where the clamp of n by count is the clamp by the members.
C3_GetNExact ==
    (DOMAIN circle # {} /\ count = Cardinality(members)) =>
        \A name \in Keys, n \in 1 .. MaxN :
            LET g == GetN(Cur, name, n)
            IN  /\ Returned(g)
                /\ Len(g.res) = Min(n, Cardinality(members))
                /\ Distinct(g.res)
                /\ g.res[1] = Get(Cur, name).res[1]

\* C4: with at least two members, GetTwo(key) returns for every key two results
\* a # b, both members.
C4_GetTwoDistinct ==
    Cardinality(members) >= 2 =>
        \A name \in Keys :
            LET g == GetTwo(Cur, name)
            IN  /\ Returned(g)
                /\ Len(g.res) = 2
                /\ g.res[1] # g.res[2]
                /\ g.res[1] \in members
                /\ g.res[2] \in members

\* C5: on both rings Add(n); Add(n) leaves the ring as a single Add(n) does.
C5_AddIdempotent ==
    /\ \A elt \in Nodes : add(add(Cur, elt), elt) = add(Cur, elt)
    /\ \A node \in GNodes : CHAddOf(CHAddOf(CHCur, node), node) = CHAddOf(CHCur, node)

\* C6: on both rings Remove(x) of an x that is not registered changes nothing.
C6_RemoveAbsentNoOp ==
    /\ \A elt \in Nodes \ members : remove(Cur, elt) = Cur
    /\ \A node \in GNodes : repr(node) \notin nodes => CHRemoveOf(CHCur, node) = CHCur

\* C7: count is the number of entries of members.
C7_CountIsMembers == count = Cardinality(members)

\* The occupants of the generic ring with the identity nodeRepr.
Occupies(g, nodeRepr) ==
    \E h \in DOMAIN g.ring : \E i \in 1 .. Len(g.ring[h]) : repr(g.ring[h][i]) = nodeRepr

\* C8: for a node x that is not on the generic ring and 0 <= r <= replicas,
\* AddWithReplicas(x, r) followed by Remove(x) restores keys and ring.
C8_RemoveUndoesAdd ==
    \A x \in GNodes, r \in 0 .. replicas :
        (repr(x) \notin nodes /\ ~Occupies(CHCur, repr(x))) =>
            LET g == CHRemoveOf(CHAddWithReplicasOf(CHCur, x, r), x)
            IN  g.keys = keys /\ g.ring = ring

\* C9: after Remove(x) of the generic ring x is not in nodes, no occupant has
\* the identity of x, and a second Remove(x) changes nothing.
C9_RemoveDeregisters ==
    \A x \in GNodes :
        LET g == CHRemoveOf(CHCur, x)
        IN  /\ repr(x) \notin g.nodes
            /\ ~Occupies(g, repr(x))
            /\ CHRemoveOf(g, x) = g

\* C10: for every member c and every key k, if Get(k) returns a node other than c,
\* Get(k) returns the same node after Remove(c).
C10_MinimalRemapping ==
    \A c \in members, name \in Keys :
        LET before == Get(Cur, name)
            after == Get(remove(Cur, c), name)
        IN  (before.err = "" /\ before.res[1] # c) => after = before

\* C11: from any reachable state of the string ring, after Set(S) for a non-empty
\* list S the members are the distinct elements of S, count is their number, and
\* Get(key) returns an element of S for every key.
C11_SetReconciles ==
    \A elts \in SetLists(Nodes) :
        elts # <<>> =>
            LET r == SetRing(Cur, elts)
            IN  /\ r.members = Range(elts)
                /\ r.count = Cardinality(Range(elts))
                /\ \A name \in Keys :
                       LET g == Get(r, name)
                       IN  g.err = "" /\ g.res[1] \in Range(elts)

\* Remove of the generic ring for every node of order, one after the other.
RECURSIVE CHRemoveAll(_, _)
CHRemoveAll(g, order) ==
    IF order = <<>> THEN g
    ELSE CHRemoveAll(CHRemoveOf(g, Head(order)), Tail(order))

\* The orders in which the nodes of S can be removed.
Orders(S) == {o \in [1 .. Cardinality(S) -> S] : Range(o) = S}

\* A lookup of the string ring that failed with ErrEmptyCircle.
EmptyCircle(r) == r.err = ErrEmptyCircle /\ r.res = <<>> /\ ~r.hang /\ ~r.panic

\* C12: on a ring without registered nodes every lookup fails for every key. On
\* the string ring, when members is empty, Get, GetTwo and GetN return
\* ErrEmptyCircle. On the generic ring, once every node has been removed (in any
\* order, from any reachable state, the new ring included), Get returns
\* (nil, false) and does not panic. A lookup changes neither ring, so the rings of
\* the states after a lookup are those of the states before it (Idle).
C12_EmptyRingFails ==
    Idle =>
        /\ members = {} =>
               \A name \in Keys :
                   /\ EmptyCircle(Get(Cur, name))
                   /\ EmptyCircle(GetTwo(Cur, name))
                   /\ \A n \in 0 .. MaxN : EmptyCircle(GetN(Cur, name, n))
        /\ \A order \in Orders(GNodes) :
               LET g == CHRemoveAll(CHCur, order)
               IN  \A v \in CHKeys :
                       CHGetOf(g, v) = Ret("Get", repr(v), 0, "not ok", <<>>, FALSE, FALSE)

\* Get of the generic ring has failed after every node that was added was removed.
C12_Witness ==
    /\ ret.op = "Get"
    /\ ret.err = "not ok"
    /\ nodes # {}
    /\ ring = <<>>

\* C13: a Get that runs beside AddWithReplicas(x, r) (Add(x) is r = replicas) of a
\* node x that is on the ring returns what it returns on the ring before the add
\* or what it returns on the ring after it.
C13_GetSeesBeforeOrAfter ==
    (/\ calls # <<>>
     /\ calls[2].op = "Get"
     /\ calls[2].pc = "done"
     /\ Occupies(snapshot, repr(calls[1].node))) =>
        \/ ret = CHGetOf(snapshot, calls[2].node)
        \/ ret = CHGetOf(CHAddWithReplicasOf(snapshot, calls[1].node, calls[1].rep),
                         calls[2].node)

\* C18: when two goroutines have each run Add(x) to its end, the ring is the ring
\* after one Add(x), and one Remove(x) then leaves no key and no occupant of x:
\* keys and ring are what Remove(x) makes of the ring the goroutines began on.
C18_ConcurrentAddOnce ==
    (/\ calls # <<>>
     /\ calls[1].op = "AddWithReplicas" /\ calls[1].rep = replicas
     /\ calls[2].op = "AddWithReplicas"
     /\ calls[1].pc = "done" /\ calls[2].pc = "done") =>
        /\ CHCur = CHAddOf(snapshot, calls[1].node)
        /\ LET g == CHRemoveOf(CHCur, calls[1].node)
               g0 == CHRemoveOf(CHAddOf(snapshot, calls[1].node), calls[1].node)
           IN  /\ ~Occupies(g, repr(calls[1].node))
               /\ g.keys = g0.keys

\* C14: after every Add, Remove and Set of the string ring sortedHashes is in
\* strictly ascending order and holds exactly the keys of circle, so
\* len(sortedHashes) = len(circle).
C14_SortedHashes ==
    /\ \A i \in 1 .. Len(sortedHashes) - 1 : sortedHashes[i] < sortedHashes[i + 1]
    /\ Range(sortedHashes) = DOMAIN circle
    /\ Len(sortedHashes) = Cardinality(DOMAIN circle)

\* A Remove has left a ring of two positions or more, fewer than before it when
\* the element removed shared none of them.
C14_Witness ==
    /\ ret.op = "Remove"
    /\ members # {}
    /\ Len(sortedHashes) >= 2

\* C15: in every state of the generic ring reachable by Add, AddWithReplicas,
\* AddWithWeight and Remove, keys is in ascending order and holds no hash twice,
\* and a hash is in keys if and only if ring holds a non-empty occupant list for it.
C15_KeysWellFormed ==
    /\ \A i \in 1 .. Len(keys) - 1 : keys[i] <= keys[i + 1]
    /\ Distinct(keys)
    /\ \A h \in CHHashSpace :
           h \in Range(keys) <=> (h \in DOMAIN ring /\ Len(ring[h]) > 0)

\* The position that serves hash h among the positions P: the smallest one that is
\* greater than or equal to h, the smallest of all when h exceeds every position.
FirstAtOrAfter(P, h) ==
    LET Q == IF \E p \in P : p >= h THEN {p \in P : p >= h} ELSE P
    IN  CHOOSE p \in Q : \A q \in Q : p <= q

\* C16: on both rings Get(key) on a non-empty ring returns an occupant of the
\* first position, in ascending order, whose hash is greater than or equal to
\* hash(key), and of the smallest position when hash(key) exceeds every position.
C16_LookupRule ==
    /\ DOMAIN circle # {} =>
           \A name \in Keys :
               LET g == Get(Cur, name)
               IN  /\ g.err = ""
                   /\ g.res = <<circle[FirstAtOrAfter(DOMAIN circle, hashKey(name))]>>
    /\ DOMAIN ring # {} =>
           \A v \in CHKeys :
               LET g == CHGetOf(CHCur, v)
               IN  /\ Returned(g)
                   /\ g.res[1] \in Range(ring[FirstAtOrAfter(DOMAIN ring, hashFunc[repr(v)])])

\* The elements the calls of a run are made with: those the hash function of the
\* run is given for.
Elts == {elt \in Nodes : eltKey(elt, 0) \in DOMAIN hashTab}

\* C17: Set(S) of the string ring leaves the members that stay untouched: for
\* every member v that is an element of S, every position that maps to v before
\* the call exists and maps to v after it; and Set(S) with S the current members
\* changes nothing of circle, sortedHashes, members and count.
C17_SetKeepsMembers ==
    \A elts \in SetLists(Elts) :
        LET r == SetRing(Cur, elts)
        IN  /\ \A v \in members \cap Range(elts) :
                   \A h \in DOMAIN circle :
                       circle[h] = v => (h \in DOMAIN r.circle /\ r.circle[h] = v)
            /\ Range(elts) = members => r = Cur

\* The occupant entries of node on the ring g: the pairs of a position and an
\* index of its occupant list at which node stands.
EntriesOf(g, node) ==
    UNION {{<<h, i>> : i \in {j \in 1 .. Len(g.ring[h]) : g.ring[h][j] = node}} :
              h \in DOMAIN g.ring}

\* C19: AddWithWeight(node, w), w >= 0, on a ring of replica count R leaves
\* exactly min(R, floor(R * w / 100)) occupant entries of node and node
\* registered; after w = 0 no Get returns node.
C19_WeightedReplicas ==
    \A node \in GNodes, w \in Weights :
        LET g == CHAddWithWeightOf(CHCur, node, w)
        IN  /\ Cardinality(EntriesOf(g, node))
                   = Min(replicas, (replicas * w) \div TopWeight)
            /\ repr(node) \in g.nodes
            /\ w = 0 => \A v \in CHKeys : node \notin Range(CHGetOf(g, v).res)

\* C20: Get of the generic ring never panics: in every state reachable by Add,
\* AddWithReplicas, AddWithWeight and Remove a non-empty ring has a non-empty
\* keys, so the modulo by len(keys) does not divide by zero.
C20_GetNeverPanics ==
    /\ DOMAIN ring # {} => Len(keys) > 0
    /\ \A v \in CHKeys : ~CHGetOf(CHCur, v).panic

====
